---- MODULE Spec2Model ----
(***************************************************************************)
(* Model of the maintenance scripts of the art-portfolio website.          *)
(*                                                                         *)
(* Strings are sequences of one-character strings, so that slugify,        *)
(* is_filename_title and the sort of the artwork files are computed        *)
(* character by character as the Python code computes them.                *)
(***************************************************************************)
EXTENDS Integers, Sequences, FiniteSets, TLC

(***************************************************************************)
(* Bounds of the model.                                                    *)
(***************************************************************************)
MaxFiles == 2
MaxLimit == 1
MaxTitleLen == 3

MaxTailLen == 2

MaxApprovals == 2

MaxDupFiles == 2

(***************************************************************************)
(* Characters.                                                             *)
(***************************************************************************)
EAcute == "e^"

AAcute == "A^"

SmallAAcute == "a^"

\* a character of a non-Latin script: NFKD leaves it, the ASCII encoding drops it
Kanji == "U+65E5"

LowerLetters == {"a", "b", "c", "d", "e", "g", "i", "j", "m", "p", "x"}

Digits == {"0", "1", "2"}

Whitespace == {" "}

\* code points, for the order that sorted() puts on the paths
Ord(c) ==
  CASE c = " " -> 32 [] c = "!" -> 33 [] c = "-" -> 45 [] c = "." -> 46
    [] c = "0" -> 48 [] c = "1" -> 49 [] c = "2" -> 50
    [] c = "A" -> 65 [] c = "B" -> 66 [] c = "C" -> 67 [] c = "G" -> 71
    [] c = "I" -> 73 [] c = "M" -> 77 [] c = "_" -> 95
    [] c = "a" -> 97 [] c = "b" -> 98 [] c = "c" -> 99 [] c = "d" -> 100
    [] c = "e" -> 101 [] c = "g" -> 103 [] c = "i" -> 105 [] c = "j" -> 106
    [] c = "m" -> 109 [] c = "p" -> 112 [] c = "x" -> 120
    [] OTHER -> 233

\* str.lower() on one character
LowerChar(c) ==
  CASE c = "A" -> "a" [] c = "B" -> "b" [] c = "C" -> "c" [] c = "G" -> "g"
    [] c = "I" -> "i" [] c = "M" -> "m" [] c = AAcute -> SmallAAcute
    [] c = "J" -> "j" [] c = "P" -> "p"
    [] OTHER -> c

RECURSIVE Lower(_)
Lower(s) == IF s = <<>> THEN <<>> ELSE <<LowerChar(Head(s))>> \o Lower(Tail(s))

\* unicodedata.normalize("NFKD", c).encode("ascii", "ignore") on one character:
\* an accented letter keeps its base letter, the combining mark is dropped
AsciiFold(c) ==
  CASE c = EAcute -> <<"e">>
    [] c = AAcute -> <<"A">>
    [] c = SmallAAcute -> <<"a">>
    [] c = Kanji -> << >>
    [] OTHER -> <<c>>

MdExt == <<".", "m", "d">>

JpgExt == <<".", "j", "p", "g">>

(***************************************************************************)
(* slugify                                                                 *)
(***************************************************************************)
RECURSIVE NormalizeAscii(_)
NormalizeAscii(s) ==
  IF s = <<>> THEN <<>> ELSE AsciiFold(Head(s)) \o NormalizeAscii(Tail(s))

\* re.sub(r"[\s_]+", "-", slug): every maximal run becomes one hyphen
RECURSIVE SpacesToHyphen(_)
SpacesToHyphen(s) ==
  IF s = <<>> THEN <<>>
  ELSE IF Head(s) \in Whitespace \cup {"_"}
       THEN IF Len(s) > 1 /\ s[2] \in Whitespace \cup {"_"}
            THEN SpacesToHyphen(Tail(s))
            ELSE <<"-">> \o SpacesToHyphen(Tail(s))
       ELSE <<Head(s)>> \o SpacesToHyphen(Tail(s))

\* re.sub(r"[^a-z0-9-]", "", slug)
SlugChars == LowerLetters \cup Digits \cup {"-"}

KeepSlugChars_All(s) == s

RECURSIVE KeepSlugChars(_)
KeepSlugChars(s) ==
  IF s = <<>> THEN <<>>
  ELSE (IF Head(s) \in SlugChars THEN <<Head(s)>> ELSE <<>>) \o KeepSlugChars(Tail(s))

\* re.sub(r"-+", "-", slug)
RECURSIVE CollapseHyphens(_)
CollapseHyphens(s) ==
  IF s = <<>> THEN <<>>
  ELSE IF Head(s) = "-" /\ Len(s) > 1 /\ s[2] = "-"
       THEN CollapseHyphens(Tail(s))
       ELSE <<Head(s)>> \o CollapseHyphens(Tail(s))

\* slug.strip("-")
RECURSIVE StripLeft(_)
StripLeft(s) == IF s # <<>> /\ Head(s) = "-" THEN StripLeft(Tail(s)) ELSE s

RECURSIVE StripRight(_)
StripRight(s) ==
  IF s # <<>> /\ s[Len(s)] = "-" THEN StripRight(SubSeq(s, 1, Len(s) - 1)) ELSE s

StripHyphens(s) == StripRight(StripLeft(s))

slugify_FilterLast(title) ==
  KeepSlugChars(StripHyphens(CollapseHyphens(SpacesToHyphen(Lower(NormalizeAscii(title))))))

slugify(title) ==
  StripHyphens(CollapseHyphens(KeepSlugChars(SpacesToHyphen(Lower(NormalizeAscii(title))))))

(***************************************************************************)
(* is_filename_title                                                       *)
(***************************************************************************)
EndsWith(s, suffix) ==
  /\ Len(s) >= Len(suffix)
  /\ SubSeq(s, Len(s) - Len(suffix) + 1, Len(s)) = suffix

StartsWith(s, prefix) ==
  /\ Len(s) >= Len(prefix)
  /\ SubSeq(s, 1, Len(prefix)) = prefix

ImageExtensions ==
  { <<".", "j", "p", "g">>, <<".", "j", "p", "e", "g">>,
    <<".", "p", "n", "g">>, <<".", "g", "i", "f">> }

\* re.search(r"\.(jpg|jpeg|png|gif)$", title, re.IGNORECASE)
\* ($ also matches just before a final newline)
HasImageExtension(title) ==
  \E e \in ImageExtensions :
    \/ EndsWith(Lower(title), e)
    \/ EndsWith(Lower(title), e \o <<"\n">>)

IsCameraDate_BareDate(title) ==
  /\ Len(title) >= 8
  /\ \A k \in 1..8 : title[k] \in Digits

\* re.match(r"^\d{8}[-_]\d+", title)
IsCameraDate(title) ==
  /\ Len(title) >= 10
  /\ \A k \in 1..8 : title[k] \in Digits
  /\ title[9] \in {"-", "_"}
  /\ title[10] \in Digits

\* re.match(r"^img[-_]\d+", title, re.IGNORECASE)
IsImgPattern(title) ==
  /\ Len(title) >= 5
  /\ Lower(SubSeq(title, 1, 3)) = <<"i", "m", "g">>
  /\ title[4] \in {"-", "_"}
  /\ title[5] \in Digits

is_filename_title(title) ==
  \/ HasImageExtension(title)
  \/ IsCameraDate(title)
  \/ IsImgPattern(title)

(***************************************************************************)
(* image_name_seems_better                                                 *)
(***************************************************************************)
Contains(s, sub) ==
  \E k \in 0..(Len(s) - Len(sub)) : SubSeq(s, k + 1, k + Len(sub)) = sub

\* set(text.replace("-", " ").split())
RECURSIVE WordsFrom(_, _)
WordsFrom(s, word) ==
  IF s = <<>> THEN (IF word = <<>> THEN {} ELSE {word})
  ELSE IF Head(s) \in Whitespace \cup {"-"}
       THEN (IF word = <<>> THEN {} ELSE {word}) \cup WordsFrom(Tail(s), <<>>)
       ELSE WordsFrom(Tail(s), Append(word, Head(s)))

Words(s) == WordsFrom(s, <<>>)

generic_words ==
  { <<"j", "p", "g">>, <<"j", "p", "e", "g">>, <<"p", "n", "g">>, <<"i", "m", "g">>,
    <<"i", "m", "a", "g", "e">>, <<"p", "h", "o", "t", "o">>, <<"p", "i", "c">> }

descriptive_patterns ==
  { <<"h", "o", "t", "e", "l">>, <<"r", "o", "o", "f", "l", "i", "n", "e">>,
    <<"v", "i", "l", "l", "a", "g", "e">>, <<"p", "o", "r", "t", "r", "a", "i", "t">>,
    <<"s", "t", "u", "d", "y">>, <<"v", "i", "e", "w">> }

\* index of the last "." of a name, 0 when there is none
RECURSIVE LastDot(_)
LastDot(name) ==
  IF name = <<>> THEN 0
  ELSE IF name[Len(name)] = "." THEN Len(name)
  ELSE LastDot(SubSeq(name, 1, Len(name) - 1))

\* Path(name).suffix: from the last dot, unless the dot is first or last
PathSuffix(name) ==
  LET k == LastDot(name)
  IN IF 1 < k /\ k < Len(name) THEN SubSeq(name, k, Len(name)) ELSE <<>>

\* Path(name).stem
PathStem(name) == SubSeq(name, 1, Len(name) - Len(PathSuffix(name)))

image_name_seems_better(image_name, title_slug) ==
  LET image_slug == PathStem(image_name)
      image_words == Words(image_slug) \ generic_words
      title_words == Words(title_slug) \ generic_words
  IN \/ Cardinality(image_words) > Cardinality(title_words) + 2
     \/ \E pattern \in descriptive_patterns :
          /\ Contains(Lower(image_slug), pattern)
          /\ ~Contains(Lower(title_slug), pattern)

(***************************************************************************)
(* Paths, records and the order of sorted(ARTWORKS_DIR.glob("*.md")).      *)
(* An artwork file is named by its stem; its name is the stem plus ".md".  *)
(***************************************************************************)
RangeOf(seq) == { seq[k] : k \in DOMAIN seq }

RECURSIVE LexLess(_, _)
LexLess(a, b) ==
  IF b = <<>> THEN FALSE
  ELSE IF a = <<>> THEN TRUE
  ELSE IF Head(a) = Head(b) THEN LexLess(Tail(a), Tail(b))
  ELSE Ord(Head(a)) < Ord(Head(b))

MdName(stem) == stem \o MdExt

RECURSIVE SortedPaths_Descending(_)
SortedPaths_Descending(S) ==
  IF S = {} THEN <<>>
  ELSE LET first == CHOOSE f \in S : \A g \in S \ {f} : LexLess(MdName(g), MdName(f))
       IN <<first>> \o SortedPaths_Descending(S \ {first})

RECURSIVE SortedPaths(_)
SortedPaths(S) ==
  IF S = {} THEN <<>>
  ELSE LET first == CHOOSE f \in S : \A g \in S \ {f} : LexLess(MdName(f), MdName(g))
       IN <<first>> \o SortedPaths(S \ {first})

\* md_files[:args.limit], where a limit of 0 (or no limit) keeps every file
Limited(seq, lim) == IF lim = 0 THEN seq ELSE SubSeq(seq, 1, IF lim < Len(seq) THEN lim ELSE Len(seq))

\* the image path of a record, split at "/": the directories before the
\* gallery folder, the gallery folder (Path.parent.name) and the file name
\* (Path.name); the empty path is the empty string
ImagePath(dirs, gallery, name) == [dirs |-> dirs, gallery |-> gallery, name |-> name]

NoImage == ImagePath(<<>>, "", <<>>)

AbsDirs == <<"", "assets", "images", "galleries">>

RelDirs == <<"assets", "images", "galleries">>

\* ASSETS_DIR / gallery_id / name
AssetFile(gallery, name) == [gallery |-> gallery, name |-> name]

NoAsset == AssetFile("", <<>>)

\* skip reasons and warnings: the message kind and the values formatted into it
Reason(kind, count, name) == [kind |-> kind, count |-> count, name |-> name]

NoReason == Reason("None", 0, <<>>)

RenamePlan(md_file, new_md_name, image_file, new_image_name, title, warnings, skip_reason) ==
  [md_file |-> md_file, new_md_name |-> new_md_name, image_file |-> image_file,
   new_image_name |-> new_image_name, title |-> title, warnings |-> warnings,
   skip_reason |-> skip_reason]

SkipPlan(md_file, title, reason) ==
  RenamePlan(md_file, <<>>, NoAsset, <<>>, title, <<>>, reason)

(***************************************************************************)
(* Inputs of the model.                                                    *)
(***************************************************************************)
StemPool == { <<"a", "-", "b">>, <<"a", "-", "b", "-", "b">>, <<"x">> }

TitlePool ==
  { <<>>,
    <<"a", " ", "b">>,
    <<"A", " ", "b">>,
    <<"a", "_", "b">>,
    <<AAcute>>,
    <<"!">>,
    <<"I", "M", "G", "_", "1">> }

ImageNamePool == { <<"x">> \o JpgExt, <<"a", "-", "b">> \o JpgExt }

\* no image, an absolute path, and a path relative to the site root
ImagePool ==
  { NoImage,
    ImagePath(AbsDirs, "g1", <<"x">> \o JpgExt),
    ImagePath(RelDirs, "g1", <<"a", "-", "b">> \o JpgExt) }

AssetPool == { AssetFile("g1", n) : n \in ImageNamePool }

\* the gallery lists of a site: one list names every record once, a second
\* one names every record twice
GalleryFiles == << "g1", "g2" >>

GalleryLists(stems) ==
  [g \in RangeOf(GalleryFiles) |->
     IF g = "g1" THEN SortedPaths(stems) ELSE SortedPaths(stems) \o SortedPaths(stems)]

Content(title, image) == [title |-> title, image |-> image]

(***************************************************************************)
(* State.                                                                  *)
(***************************************************************************)
VARIABLES
  files,                \* _artworks/*.md on disk: stem -> content (title, image)
  assets,               \* image files on disk under assets/images/galleries
  galleries,            \* _data/galleries/*.yml: file -> list of "- <slug>" entries
  execute,              \* args.execute
  limit,                \* args.limit (0: not given)
  pc,                   \* position of main
  md_files,             \* the batch passed to build_rename_plan
  title_to_files,
  file_to_title,
  file_to_image,
  planned_md_names,
  planned_image_names,
  plans,
  plan_pos,             \* index of the second pass of build_rename_plan
  exec_pos,             \* index of the execution loop of main
  actions,              \* result of the last execute_plan call
  slug_title,           \* a title given to slugify
  slug_results,         \* slugify(title), slugify(slugify(title))
  alt_files,            \* a second site: the same records, other asset names
  alt_assets,           \* the asset files of the second site
  alt_plans,            \* the plan that build_rename_plan returns for it
  fn_title,             \* a title given to is_filename_title
  fn_result,            \* what is_filename_title returned for it
  status_file,          \* _scripts/title_review_status.json: artworks, statistics
  requests,             \* the /approve requests being handled, one per thread
  dedup                 \* process_duplicate_set: its arguments, position and stats

vars == << files, assets, galleries, execute, limit, pc, md_files, title_to_files,
           file_to_title, file_to_image, planned_md_names, planned_image_names,
           plans, plan_pos, exec_pos, actions, slug_title, slug_results,
           alt_files, alt_assets, alt_plans, fn_title, fn_result,
           status_file, requests, dedup >>

review_vars == << status_file, requests >>

fn_vars == << fn_title, fn_result >>

slug_vars == << slug_title, slug_results >>

alt_vars == << alt_files, alt_assets, alt_plans >>

disk == << files, assets, galleries >>

planner == << md_files, title_to_files, file_to_title, file_to_image,
              planned_md_names, planned_image_names, plans, plan_pos >>

EmptyMap == [k \in {} |-> <<>>]

\* a site: up to MaxFiles records, some assets, the gallery lists
SiteInit ==
  /\ \E stems \in SUBSET StemPool :
       /\ stems # {}
       /\ Cardinality(stems) <= MaxFiles
       /\ files \in [stems -> { Content(t, i) : t \in TitlePool, i \in ImagePool }]
  /\ assets \in SUBSET AssetPool
  /\ galleries = GalleryLists(DOMAIN files)

SlugIdle == slug_title = <<>> /\ slug_results = <<>>

AltIdle == alt_files = EmptyMap /\ alt_assets = {} /\ alt_plans = <<>>

FnIdle == fn_title = <<>> /\ fn_result = <<>>

ReviewIdle == status_file = EmptyMap /\ requests = <<>>

DedupIdle == dedup = EmptyMap

PlannerIdle ==
  /\ md_files = <<>>
  /\ title_to_files = EmptyMap
  /\ file_to_title = EmptyMap
  /\ file_to_image = EmptyMap
  /\ planned_md_names = EmptyMap
  /\ planned_image_names = EmptyMap
  /\ plans = <<>>
  /\ plan_pos = 1
  /\ exec_pos = 1
  /\ actions = <<>>

Init ==
  /\ SiteInit
  /\ execute \in BOOLEAN
  /\ limit \in {0, MaxLimit}
  /\ pc = "scan"
  /\ PlannerIdle
  /\ SlugIdle
  /\ AltIdle
  /\ FnIdle
  /\ ReviewIdle
  /\ DedupIdle

(***************************************************************************)
(* main, up to the call of build_rename_plan, and the first pass of        *)
(* build_rename_plan: the titles and image paths of the batch.             *)
(***************************************************************************)
GetOr(map, key, default) == IF key \in DOMAIN map THEN map[key] ELSE default

Put_Lost(map, key, value) == map

\* lines 285 and 314: the name is recorded as claimed
Put(map, key, value) ==
  [k \in DOMAIN map \cup {key} |-> IF k = key THEN value ELSE map[k]]

\* lines 176-177
FileToTitle(batch, disk_files) ==
  [f \in { g \in RangeOf(batch) : disk_files[g].title # <<>> } |-> disk_files[f].title]

\* lines 183-184
FileToImage(batch, disk_files) ==
  [f \in { g \in RangeOf(batch) : disk_files[g].image # NoImage } |-> disk_files[f].image]

\* lines 178-181
TitleToFiles(batch, disk_files) ==
  [t \in { Lower(disk_files[g].title) :
            g \in { h \in RangeOf(batch) : disk_files[h].title # <<>> } } |->
     SelectSeq(batch, LAMBDA f : disk_files[f].title # <<>> /\ Lower(disk_files[f].title) = t)]

duplicate_titles(t2f) == { t \in DOMAIN t2f : Len(t2f[t]) > 1 }

\* lines 428-431: sorted(ARTWORKS_DIR.glob("*.md")), cut at args.limit
BatchOf(disk_files, lim) == Limited(SortedPaths(DOMAIN disk_files), lim)

Collect ==
  /\ pc = "scan"
  /\ LET batch == BatchOf(files, limit)
     IN /\ md_files' = batch
        /\ file_to_title' = FileToTitle(batch, files)
        /\ file_to_image' = FileToImage(batch, files)
        /\ title_to_files' = TitleToFiles(batch, files)
        /\ pc' = IF batch = <<>> THEN "report" ELSE "plan"
  /\ UNCHANGED << disk, execute, limit, planned_md_names, planned_image_names,
                  plans, plan_pos, exec_pos, actions, slug_vars, alt_vars, fn_vars, review_vars, dedup >>

(***************************************************************************)
(* The second pass of build_rename_plan: one decision per iteration.       *)
(***************************************************************************)
HasTitleAndImage_TitleOnly(title, image_path) == title # <<>>

\* line 198: a record without a title or without an image path is passed over
HasTitleAndImage(title, image_path) == title # <<>> /\ image_path # NoImage

TitleLooksLikeFilename_Never(title) == FALSE

\* line 205
TitleLooksLikeFilename(title) == is_filename_title(title)

IsDuplicateTitle_AnyKnownTitle(title, t2f) == Lower(title) \in DOMAIN t2f

IsDuplicateTitle_CaseSensitive(title, t2f) == title \in duplicate_titles(t2f)

\* line 219
IsDuplicateTitle(title, t2f) == Lower(title) \in duplicate_titles(t2f)

AlreadyNamed_Never(new_slug, current_slug) == FALSE

\* line 237
AlreadyNamed(new_slug, current_slug) == new_slug = current_slug

IsEmptySlug_Never(new_slug) == FALSE

\* line 241
IsEmptySlug(new_slug) == new_slug = <<>>

TargetExists_Unchecked(md_file, new_md_name, disk_files) == FALSE

\* line 258: new_md_path.exists() and new_md_path != md_file
TargetExists(md_file, new_md_name, disk_files) ==
  /\ \E f \in DOMAIN disk_files : MdName(f) = new_md_name
  /\ new_md_name # MdName(md_file)

ClaimedByPlan_Never(new_md_name, planned) == FALSE

\* line 272
ClaimedByPlan(new_md_name, planned) == new_md_name \in DOMAIN planned

Warning(kind, name) == [kind |-> kind, name |-> name]

OldImageExists_Assumed(old_image_file, disk_assets) == TRUE

\* line 299
OldImageExists(old_image_file, disk_assets) == old_image_file \in disk_assets

ImageTargetExists_Unchecked(new_image_file, disk_assets) == FALSE

\* line 307
ImageTargetExists(new_image_file, disk_assets) == new_image_file \in disk_assets

ImageDecision_AlwaysRename(md_file, image_path, new_slug, disk_assets, planned_images) ==
  [image_file |-> AssetFile(image_path.gallery, image_path.name),
   new_image_name |-> new_slug \o PathSuffix(image_path.name),
   warnings |-> << >>,
   planned |-> Put(planned_images, new_slug \o PathSuffix(image_path.name), md_file)]

\* lines 287-316: the image part of a decision that proceeds
ImageDecision(md_file, image_path, new_slug, disk_assets, planned_images) ==
  LET image_ext == PathSuffix(image_path.name)
      gallery_id == image_path.gallery
      old_image_file == AssetFile(gallery_id, image_path.name)
      new_image_name == new_slug \o image_ext
      new_image_file == AssetFile(gallery_id, new_image_name)
      better == IF image_name_seems_better(old_image_file.name, new_slug)
                THEN << Warning("Image name may be more descriptive", old_image_file.name) >>
                ELSE << >>
  IN IF OldImageExists(old_image_file, disk_assets)
     THEN IF old_image_file = new_image_file
          THEN [image_file |-> NoAsset, new_image_name |-> <<>>, warnings |-> better,
                planned |-> planned_images]
          ELSE IF ImageTargetExists(new_image_file, disk_assets)
          THEN [image_file |-> NoAsset, new_image_name |-> <<>>,
                warnings |-> Append(better, Warning("Image target already exists", new_image_name)),
                planned |-> planned_images]
          ELSE IF new_image_name \in DOMAIN planned_images
          THEN [image_file |-> NoAsset, new_image_name |-> <<>>,
                warnings |-> Append(better, Warning("Image collision with planned rename of",
                                                    MdName(planned_images[new_image_name]))),
                planned |-> planned_images]
          ELSE [image_file |-> old_image_file, new_image_name |-> new_image_name,
                warnings |-> better,
                planned |-> Put(planned_images, new_image_name, md_file)]
     ELSE [image_file |-> NoAsset, new_image_name |-> <<>>,
           warnings |-> << Warning("Image file not found", old_image_file.name) >>,
           planned |-> planned_images]

ProceedEntry_WarningsBlock(md_file, new_md_name, img, title) ==
  IF img.warnings # <<>>
  THEN SkipPlan(md_file, title, Reason("Image problem", 0, <<>>))
  ELSE RenamePlan(md_file, new_md_name, img.image_file, img.new_image_name, title,
                  img.warnings, NoReason)

\* lines 318-325: the entry of a record that proceeds, whatever its warnings
ProceedEntry(md_file, new_md_name, img, title) ==
  RenamePlan(md_file, new_md_name, img.image_file, img.new_image_name, title,
             img.warnings, NoReason)

\* one iteration of the second pass, on the results of the first pass
\* (f2t, f2i, t2f), the disk and the names claimed so far: the entries it
\* appends to plans, and the claimed names after it
DecideOn(md_file, f2t, f2i, t2f, disk_files, disk_assets, claimed_md, claimed_images) ==
  LET title == GetOr(f2t, md_file, <<>>)
      image_path == GetOr(f2i, md_file, NoImage)
      new_slug == slugify(title)
      current_slug == md_file
      new_md_name == new_slug \o MdExt
      same == [entries |-> <<>>, md_names |-> claimed_md, image_names |-> claimed_images]
      Skip(reason) == [same EXCEPT !.entries = << SkipPlan(md_file, title, reason) >>]
  IN IF ~HasTitleAndImage(title, image_path) THEN same
     ELSE IF TitleLooksLikeFilename(title)
     THEN Skip(Reason("Title looks like a filename", 0, <<>>))
     ELSE IF IsDuplicateTitle(title, t2f)
     THEN Skip(Reason("Duplicate title", Len(t2f[Lower(title)]), <<>>))
     ELSE IF AlreadyNamed(new_slug, current_slug) THEN same
     ELSE IF IsEmptySlug(new_slug)
     THEN Skip(Reason("Empty slug generated", 0, <<>>))
     ELSE IF TargetExists(md_file, new_md_name, disk_files)
     THEN Skip(Reason("Target file already exists", 0, new_md_name))
     ELSE IF ClaimedByPlan(new_md_name, claimed_md)
     THEN Skip(Reason("Collision with planned rename of", 0,
                      MdName(claimed_md[new_md_name])))
     ELSE LET img == ImageDecision(md_file, image_path, new_slug, disk_assets,
                                   claimed_images)
          IN [entries |-> << ProceedEntry(md_file, new_md_name, img, title) >>,
              md_names |-> Put(claimed_md, new_md_name, md_file),
              image_names |-> img.planned]

\* the iteration on the state of the running build_rename_plan
Decide(md_file) ==
  DecideOn(md_file, file_to_title, file_to_image, title_to_files, files, assets,
           planned_md_names, planned_image_names)

\* build_rename_plan as a function of the batch and the disk: the first pass,
\* then the second pass over the batch in order
build_rename_plan(batch, disk_files, disk_assets) ==
  LET f2t == FileToTitle(batch, disk_files)
      f2i == FileToImage(batch, disk_files)
      t2f == TitleToFiles(batch, disk_files)
      pass[k \in 0..Len(batch)] ==
        IF k = 0
        THEN [plans |-> <<>>, md_names |-> EmptyMap, image_names |-> EmptyMap]
        ELSE LET before == pass[k - 1]
                 d == DecideOn(batch[k], f2t, f2i, t2f, disk_files, disk_assets,
                               before.md_names, before.image_names)
             IN [plans |-> before.plans \o d.entries,
                 md_names |-> d.md_names,
                 image_names |-> d.image_names]
  IN pass[Len(batch)].plans

PlanNext ==
  /\ pc = "plan"
  /\ plan_pos <= Len(md_files)
  /\ LET d == Decide(md_files[plan_pos])
     IN /\ plans' = plans \o d.entries
        /\ planned_md_names' = d.md_names
        /\ planned_image_names' = d.image_names
  /\ plan_pos' = plan_pos + 1
  /\ pc' = IF plan_pos = Len(md_files) THEN "report" ELSE "plan"
  /\ UNCHANGED << disk, execute, limit, md_files, title_to_files, file_to_title,
                  file_to_image, exec_pos, actions, slug_vars, alt_vars, fn_vars, review_vars, dedup >>

(***************************************************************************)
(* main after the plan is built: the report and the execution loop.        *)
(***************************************************************************)
will_rename(all_plans) ==
  SelectSeq(all_plans, LAMBDA p : p.new_md_name # <<>> /\ p.skip_reason = NoReason)

skipped(all_plans) == SelectSeq(all_plans, LAMBDA p : p.skip_reason # NoReason)

PlanReturned_Early(position) == position \in {"plan", "report"}

\* main calls build_rename_plan to completion before it goes on (line 435)
PlanReturned(position) == position = "report"

ShouldExecute_IgnoringFlag(flag, renames) == renames # <<>>

\* line 473
ShouldExecute(flag, renames) == flag /\ renames # <<>>

Report ==
  /\ PlanReturned(pc)
  /\ pc' = IF ShouldExecute(execute, will_rename(plans)) THEN "exec" ELSE "done"
  /\ UNCHANGED << disk, execute, limit, planner, exec_pos, actions, slug_vars, alt_vars, fn_vars, review_vars, dedup >>

\* git_mv: False when the source is missing, else the result of "git mv",
\* which refuses an existing destination and may fail for its own reasons
git_mv(src_exists, dst_exists, git_ok) == src_exists /\ ~dst_exists /\ git_ok

\* whether the text "/assets/images/galleries/<gallery>/<name>" occurs in the
\* image path of a record
MentionsAsset(image_path, asset) ==
  /\ image_path.gallery = asset.gallery
  /\ image_path.name = asset.name
  /\ Len(image_path.dirs) >= 4
  /\ SubSeq(image_path.dirs, Len(image_path.dirs) - 2, Len(image_path.dirs)) = RelDirs

\* content.replace(old_image, new_image) on the content of one record
update_image_path_in_file(content, old_asset, new_image_name) ==
  IF MentionsAsset(content.image, old_asset)
  THEN [content EXCEPT !.image.name = new_image_name]
  ELSE content

\* "- <old_slug>" replaced by "- <new_slug>" in one "- <entry>" line
ReplaceEntry(entry, old_slug, new_slug) ==
  IF StartsWith(entry, old_slug)
  THEN new_slug \o SubSeq(entry, Len(old_slug) + 1, Len(entry))
  ELSE entry

update_gallery_data_files(old_slug, new_slug, lists) ==
  [g \in DOMAIN lists |->
     [k \in DOMAIN lists[g] |-> ReplaceEntry(lists[g][k], old_slug, new_slug)]]

Action(kind, name) == [kind |-> kind, name |-> name]

ReturnsAfterFailedMove_Missing(md_moved) == FALSE

\* lines 377-379: the error branch returns
ReturnsAfterFailedMove(md_moved) == ~md_moved

\* execute_plan on the disk state d = [files, assets, galleries]; md_ok and
\* img_ok are the outcomes of the two "git mv" commands
execute_plan(plan, d, md_ok, img_ok) ==
  LET old_slug == plan.md_file
      new_slug == PathStem(plan.new_md_name)
      md_moved == git_mv(plan.md_file \in DOMAIN d.files,
                         new_slug \in DOMAIN d.files, md_ok)
      files1 == IF md_moved
                THEN [f \in (DOMAIN d.files \ {old_slug}) \cup {new_slug} |->
                        IF f = new_slug THEN d.files[old_slug] ELSE d.files[f]]
                ELSE d.files
      has_image == plan.image_file # NoAsset /\ plan.new_image_name # <<>>
      new_asset == AssetFile(plan.image_file.gallery, plan.new_image_name)
      img_moved == /\ has_image
                   /\ git_mv(plan.image_file \in d.assets, new_asset \in d.assets, img_ok)
      assets1 == IF img_moved
                 THEN (d.assets \ {plan.image_file}) \cup {new_asset}
                 ELSE d.assets
      files2 == IF img_moved /\ new_slug \in DOMAIN files1
                THEN [files1 EXCEPT ![new_slug] =
                        update_image_path_in_file(@, plan.image_file, plan.new_image_name)]
                ELSE files1
      galleries1 == update_gallery_data_files(old_slug, new_slug, d.galleries)
      changes == SelectSeq(GalleryFiles, LAMBDA g : galleries1[g] # d.galleries[g])
  IN IF ReturnsAfterFailedMove(md_moved)
     THEN [files |-> d.files, assets |-> d.assets, galleries |-> d.galleries,
           actions |-> << Action("ERROR: Failed to move", MdName(plan.md_file)) >>]
     ELSE [files |-> files2, assets |-> assets1, galleries |-> galleries1,
           actions |->
             << IF md_moved THEN Action("git mv", plan.new_md_name)
                ELSE Action("ERROR: Failed to move", MdName(plan.md_file)) >>
             \o (IF ~has_image THEN << >>
                 ELSE IF img_moved
                 THEN << Action("git mv", plan.new_image_name),
                         Action("Updated image path in", plan.new_md_name) >>
                 ELSE << Action("ERROR: Failed to move image", plan.image_file.name) >>)
             \o [k \in DOMAIN changes |-> Action("Updated", << changes[k] >>)]]

ExecuteNext ==
  /\ pc = "exec"
  /\ exec_pos <= Len(will_rename(plans))
  /\ \E md_ok, img_ok \in BOOLEAN :
       LET r == execute_plan(will_rename(plans)[exec_pos],
                             [files |-> files, assets |-> assets, galleries |-> galleries],
                             md_ok, img_ok)
       IN /\ files' = r.files
          /\ assets' = r.assets
          /\ galleries' = r.galleries
          /\ actions' = r.actions
  /\ exec_pos' = exec_pos + 1
  /\ pc' = IF exec_pos = Len(will_rename(plans)) THEN "done" ELSE "exec"
  /\ UNCHANGED << execute, limit, planner, slug_vars, alt_vars, fn_vars, review_vars, dedup >>

Next == Collect \/ PlanNext \/ Report \/ ExecuteNext

Spec == Init /\ [][Next]_vars

(***************************************************************************)
(* Properties of the rename plan.                                          *)
(***************************************************************************)
\* slugify and is_filename_title of the titles of the sites, computed once
SlugTable == [t \in TitlePool |-> slugify(t)]

SlugOfTitle(title) == IF title \in DOMAIN SlugTable THEN SlugTable[title] ELSE slugify(title)

FilenameTitleTable == [t \in TitlePool |-> is_filename_title(t)]

IsFilenameTitleOf(title) ==
  IF title \in DOMAIN FilenameTitleTable THEN FilenameTitleTable[title]
  ELSE is_filename_title(title)

Batch == { md_files[k] : k \in DOMAIN md_files }

IsProceed(p) == p.new_md_name # <<>> /\ p.skip_reason = NoReason

IsSkip(p) == p.skip_reason # NoReason

EntriesOf(f) == { k \in DOMAIN plans : plans[k].md_file = f }

ProceedsOf(f) == { k \in EntriesOf(f) : IsProceed(plans[k]) }

SkipsOf(f, kind) ==
  { k \in EntriesOf(f) : IsSkip(plans[k]) /\ plans[k].skip_reason.kind = kind }

\* the plan is complete and nothing has been executed yet
Planned == pc = "report"

\* C1: no two Proceed decisions of a plan have the same new_md_name.
C1_UniqueTargets ==
  \A i, j \in DOMAIN plans :
    (i # j /\ IsProceed(plans[i]) /\ IsProceed(plans[j]))
      => plans[i].new_md_name # plans[j].new_md_name

\* a plan in which a second record wanted a name that a Proceed decision holds
C1_Witness ==
  /\ Planned
  /\ \E i, j \in DOMAIN plans :
       /\ IsProceed(plans[i])
       /\ plans[j].skip_reason.kind = "Collision with planned rename of"
       /\ plans[j].skip_reason.name = MdName(plans[i].md_file)
       /\ slugify(plans[j].title) \o MdExt = plans[i].new_md_name

\* C2: without --execute no step of main changes a record file, an asset
\* file, a record content or a gallery list.
C2_DryRunChangesNothing == [][~execute => UNCHANGED disk]_vars

\* a dry run that ended with renames in its plan
C2_Witness == ~execute /\ pc = "done" /\ will_rename(plans) # <<>>

\* C3: every step that changes the disk is a step of the execution loop,
\* taken after the second pass has decided every record of the batch; the
\* steps of build_rename_plan change nothing on disk.
C3_PlanBeforeMutation ==
  [][(disk' # disk) => (pc = "exec" /\ plan_pos = Len(md_files) + 1)]_vars

\* an execution that moved a record after a plan over several records
C3_Witness ==
  /\ pc \in {"exec", "done"}
  /\ Len(md_files) > 1
  /\ actions # <<>>
  /\ actions[1].kind = "git mv"

\* C4: the target of a Proceed decision is not the name of a file of
\* _artworks at planning time, other than the record being renamed.
C4_TargetIsFree ==
  pc \in {"plan", "report"} =>
    \A k \in DOMAIN plans :
      IsProceed(plans[k]) =>
        \A f \in DOMAIN files :
          MdName(f) = plans[k].new_md_name => f = plans[k].md_file

\* a plan with a Proceed decision and a record skipped because its target
\* is the name of a file on disk
C4_Witness ==
  /\ Planned
  /\ \E i, j \in DOMAIN plans :
       /\ IsProceed(plans[i])
       /\ plans[j].skip_reason.kind = "Target file already exists"
       /\ PathStem(plans[j].skip_reason.name) \in DOMAIN files

\* another record of the batch has the same title, case-insensitively
SharesTitle(f) ==
  /\ files[f].title # <<>>
  /\ \E g \in Batch \ {f} : Lower(files[g].title) = Lower(files[f].title)

SharingCount(f) ==
  Cardinality({ g \in Batch : Lower(files[g].title) = Lower(files[f].title) })

\* C5 as stated: every record that shares its title receives a Skip with
\* the duplicate-title reason, whatever the other checks say, and does not
\* Proceed.
C5_AllDuplicatesSkipAsDuplicate ==
  Planned =>
    \A f \in Batch :
      SharesTitle(f) => (SkipsOf(f, "Duplicate title") # {} /\ ProceedsOf(f) = {})

\* C5 amended: no record that shares its title Proceeds; one with an image
\* path receives exactly one Skip, with the filename reason when its title
\* is filename-like and with the duplicate-title reason (and the number of
\* files sharing the title) otherwise; one without an image path receives
\* no decision.
C5_DuplicatesNeverProceed ==
  Planned =>
    \A f \in Batch :
      SharesTitle(f) =>
        /\ ProceedsOf(f) = {}
        /\ IF files[f].image = NoImage THEN EntriesOf(f) = {}
           ELSE IF IsFilenameTitleOf(files[f].title)
           THEN EntriesOf(f) = SkipsOf(f, "Title looks like a filename")
                /\ Cardinality(EntriesOf(f)) = 1
           ELSE /\ EntriesOf(f) = SkipsOf(f, "Duplicate title")
                /\ Cardinality(EntriesOf(f)) = 1
                /\ \A k \in EntriesOf(f) : plans[k].skip_reason.count = SharingCount(f)

\* two records whose titles differ only in case, both skipped as duplicates
C5_Witness ==
  /\ Planned
  /\ \E f, g \in Batch :
       /\ f # g
       /\ files[f].title # files[g].title
       /\ SharesTitle(f)
       /\ SkipsOf(f, "Duplicate title") # {}
       /\ SkipsOf(g, "Duplicate title") # {}

\* C6 as stated: every record with a filename-like title receives a Skip
\* with the filename reason and no Proceed.
C6_FilenameTitlesSkip ==
  Planned =>
    \A f \in Batch :
      IsFilenameTitleOf(files[f].title) =>
        (SkipsOf(f, "Title looks like a filename") # {} /\ ProceedsOf(f) = {})

\* C6 amended: every record with a filename-like title never Proceeds, and
\* receives the Skip with the filename reason when it has an image path.
C6_FilenameTitlesWithImageSkip ==
  Planned =>
    \A f \in Batch :
      IsFilenameTitleOf(files[f].title) =>
        /\ ProceedsOf(f) = {}
        /\ files[f].image # NoImage =>
             (EntriesOf(f) = SkipsOf(f, "Title looks like a filename")
              /\ Cardinality(EntriesOf(f)) = 1)

\* a record with a filename-like title and an image path, skipped for it
C6_Witness ==
  /\ Planned
  /\ \E f \in Batch :
       /\ IsFilenameTitleOf(files[f].title)
       /\ files[f].image # NoImage
       /\ SkipsOf(f, "Title looks like a filename") # {}

\* C7 as stated: a record whose stem equals slugify(title) has no entry.
C7_NamedRecordsYieldNothing ==
  Planned =>
    \A f \in Batch : SlugOfTitle(files[f].title) = f => EntriesOf(f) = {}

\* C7 amended: a record whose stem equals slugify(title), and whose title is
\* neither filename-like nor shared with another record, has no entry.
C7_NamedUniqueRecordsYieldNothing ==
  Planned =>
    \A f \in Batch :
      (/\ SlugOfTitle(files[f].title) = f
       /\ ~IsFilenameTitleOf(files[f].title)
       /\ ~SharesTitle(f))
        => EntriesOf(f) = {}

\* a record with an image path that is already named after its title, in a
\* plan that decides another record
C7_Witness ==
  /\ Planned
  /\ plans # <<>>
  /\ \E f \in Batch :
       /\ files[f].image # NoImage
       /\ SlugOfTitle(files[f].title) = f
       /\ ~IsFilenameTitleOf(files[f].title)
       /\ ~SharesTitle(f)
       /\ EntriesOf(f) = {}

\* the title of f is non-empty, not filename-like, not shared, and its slug
\* is empty
HasEmptySlug(f) ==
  /\ files[f].title # <<>>
  /\ ~IsFilenameTitleOf(files[f].title)
  /\ ~SharesTitle(f)
  /\ SlugOfTitle(files[f].title) = <<>>

\* C8 as stated: such a record receives the Skip with the empty-slug reason
\* and no Proceed.
C8_EmptySlugSkips ==
  Planned =>
    \A f \in Batch :
      HasEmptySlug(f) => (SkipsOf(f, "Empty slug generated") # {} /\ ProceedsOf(f) = {})

\* C8 amended: such a record never Proceeds, and receives the Skip with the
\* empty-slug reason when it has an image path.
C8_EmptySlugWithImageSkips ==
  Planned =>
    \A f \in Batch :
      HasEmptySlug(f) =>
        /\ ProceedsOf(f) = {}
        /\ files[f].image # NoImage =>
             (EntriesOf(f) = SkipsOf(f, "Empty slug generated")
              /\ Cardinality(EntriesOf(f)) = 1)

\* a record with an image path skipped for its empty slug
C8_Witness ==
  /\ Planned
  /\ \E f \in Batch :
       /\ HasEmptySlug(f)
       /\ files[f].image # NoImage
       /\ SkipsOf(f, "Empty slug generated") # {}

\* the record at position k of the batch passes every record-level check
Eligible(k) ==
  LET f == md_files[k]
      slug == SlugOfTitle(files[f].title)
      target == slug \o MdExt
  IN /\ files[f].title # <<>>
     /\ ~SharesTitle(f)
     /\ ~IsFilenameTitleOf(files[f].title)
     /\ slug # <<>>
     /\ slug # f
     /\ \A g \in DOMAIN files : MdName(g) # target
     /\ \A j \in 1..(k - 1) :
          \A e \in ProceedsOf(md_files[j]) : plans[e].new_md_name # target

ProceedsAsSlug(f) ==
  LET entries == EntriesOf(f)
  IN /\ Cardinality(entries) = 1
     /\ \A e \in entries :
          IsProceed(plans[e]) /\ plans[e].new_md_name = SlugOfTitle(files[f].title) \o MdExt

\* C9 as stated: every eligible record Proceeds with slugify(title) + ".md",
\* with or without an image path.
C9_EligibleProceeds ==
  Planned => \A k \in DOMAIN md_files : Eligible(k) => ProceedsAsSlug(md_files[k])

\* C9 amended: every eligible record that has an image path Proceeds with
\* slugify(title) + ".md"; one without an image path receives no decision.
C9_EligibleWithImageProceeds ==
  Planned =>
    \A k \in DOMAIN md_files :
      Eligible(k) =>
        IF files[md_files[k]].image # NoImage
        THEN ProceedsAsSlug(md_files[k])
        ELSE EntriesOf(md_files[k]) = {}

\* a plan in which two eligible records Proceed, one of them without an
\* asset rename
C9_Witness ==
  /\ Planned
  /\ \E j, k \in DOMAIN md_files :
       /\ j < k
       /\ Eligible(j) /\ Eligible(k)
       /\ ProceedsAsSlug(md_files[j]) /\ ProceedsAsSlug(md_files[k])
       /\ \E e \in EntriesOf(md_files[k]) : plans[e].image_file = NoAsset

\* C10 as stated: every record of the batch has exactly one entry.
C10_ExactlyOneDecision ==
  Planned => \A f \in Batch : Cardinality(EntriesOf(f)) = 1

\* C10 amended: every record has at most one entry; it has one exactly when
\* it has a title and an image path and its title is filename-like, or
\* shared, or slugifies to something else than its stem.
C10_AtMostOneDecision ==
  Planned =>
    \A f \in Batch :
      /\ Cardinality(EntriesOf(f)) <= 1
      /\ EntriesOf(f) # {} <=>
           /\ files[f].title # <<>>
           /\ files[f].image # NoImage
           /\ \/ IsFilenameTitleOf(files[f].title)
              \/ SharesTitle(f)
              \/ SlugOfTitle(files[f].title) # f

\* a plan with one record decided and one record, with title and image
\* path, left without a decision
C10_Witness ==
  /\ Planned
  /\ \E f, g \in Batch :
       /\ Cardinality(EntriesOf(f)) = 1
       /\ files[g].title # <<>>
       /\ files[g].image # NoImage
       /\ EntriesOf(g) = {}

(***************************************************************************)
(* Properties of the asset part of the plan.                               *)
(***************************************************************************)
HasAssetRename(p) == IsProceed(p) /\ p.new_image_name # <<>>

\* C13: no two Proceed decisions of a plan carry an asset rename to the
\* same new_image_name.
C13_UniqueAssetTargets ==
  \A i, j \in DOMAIN plans :
    (i # j /\ HasAssetRename(plans[i]) /\ HasAssetRename(plans[j]))
      => plans[i].new_image_name # plans[j].new_image_name

\* a plan with two asset renames
C13_Witness ==
  /\ Planned
  /\ \E i, j \in DOMAIN plans :
       i # j /\ HasAssetRename(plans[i]) /\ HasAssetRename(plans[j])

\* the asset file that the image path of record f names, and the asset
\* file it would be renamed to
OldAssetOf(f) == AssetFile(files[f].image.gallery, files[f].image.name)

TargetAssetOf(f) ==
  AssetFile(files[f].image.gallery,
            SlugOfTitle(files[f].title) \o PathSuffix(files[f].image.name))

\* the record at position k passes every record-level check and has an
\* image path
Proceeding(k) == Eligible(k) /\ files[md_files[k]].image # NoImage

HasWarning(p, kind) == \E w \in DOMAIN p.warnings : p.warnings[w].kind = kind

NoAssetRename(p) == p.image_file = NoAsset /\ p.new_image_name = <<>>

\* C14: a record that passes the record-level checks and whose asset file
\* is not on disk Proceeds, with the "Image file not found" warning and
\* without an asset rename.
C14_MissingAssetStillProceeds ==
  Planned =>
    \A k \in DOMAIN md_files :
      (Proceeding(k) /\ OldAssetOf(md_files[k]) \notin assets) =>
        /\ ProceedsAsSlug(md_files[k])
        /\ \A e \in EntriesOf(md_files[k]) :
             /\ HasWarning(plans[e], "Image file not found")
             /\ NoAssetRename(plans[e])

\* a record that Proceeds although its asset file is missing, next to assets
\* that are on disk
C14_Witness ==
  /\ Planned
  /\ assets # {}
  /\ \E k \in DOMAIN md_files :
       /\ Proceeding(k)
       /\ OldAssetOf(md_files[k]) \notin assets
       /\ ProceedsAsSlug(md_files[k])

\* the asset target of the record at position k was claimed by the asset
\* rename of an earlier record
AssetClaimedEarlier(k) ==
  \E j \in 1..(k - 1) :
    \E e \in ProceedsOf(md_files[j]) :
      plans[e].new_image_name = TargetAssetOf(md_files[k]).name

\* C15 as stated: when the asset target exists on disk or was claimed
\* earlier, the decision is Proceed, has a warning and no asset rename.
C15_TakenAssetTargetWarns ==
  Planned =>
    \A k \in DOMAIN md_files :
      (/\ Proceeding(k)
       /\ \/ TargetAssetOf(md_files[k]) \in assets
          \/ AssetClaimedEarlier(k))
        => /\ ProceedsAsSlug(md_files[k])
           /\ \A e \in EntriesOf(md_files[k]) :
                plans[e].warnings # <<>> /\ NoAssetRename(plans[e])

\* C15 amended: the same, when the asset target is another file than the
\* asset of the record itself; when the target is the record's own asset
\* file the decision is Proceed without an asset rename and without a
\* warning about the target.
C15_TakenAssetTargetOfOtherFileWarns ==
  Planned =>
    \A k \in DOMAIN md_files :
      (/\ Proceeding(k)
       /\ \/ TargetAssetOf(md_files[k]) \in assets
          \/ AssetClaimedEarlier(k))
        => /\ ProceedsAsSlug(md_files[k])
           /\ \A e \in EntriesOf(md_files[k]) :
                /\ NoAssetRename(plans[e])
                /\ IF TargetAssetOf(md_files[k]) = OldAssetOf(md_files[k])
                   THEN /\ ~HasWarning(plans[e], "Image target already exists")
                        /\ ~HasWarning(plans[e], "Image collision with planned rename of")
                        /\ ~HasWarning(plans[e], "Image file not found")
                   ELSE \/ HasWarning(plans[e], "Image target already exists")
                        \/ HasWarning(plans[e], "Image collision with planned rename of")
                        \/ HasWarning(plans[e], "Image file not found")

\* a record that Proceeds with the warning that its asset target exists
C15_Witness ==
  /\ Planned
  /\ \E k \in DOMAIN md_files :
       /\ Proceeding(k)
       /\ TargetAssetOf(md_files[k]) \in assets
       /\ TargetAssetOf(md_files[k]) # OldAssetOf(md_files[k])
       /\ \E e \in EntriesOf(md_files[k]) :
            IsProceed(plans[e]) /\ HasWarning(plans[e], "Image target already exists")

(***************************************************************************)
(* Properties of execute_plan, stated on the steps of the execution loop.  *)
(***************************************************************************)
\* the decision that the next step of the execution loop executes
CurrentPlan == will_rename(plans)[exec_pos]

OldSlug == CurrentPlan.md_file

NewSlug == PathStem(CurrentPlan.new_md_name)

\* the step executes a decision and moves its record file
RecordMoved == pc = "exec" /\ OldSlug \in DOMAIN files /\ OldSlug \notin DOMAIN files'

\* the step executes a decision and leaves its record file in place
RecordMoveFailed == pc = "exec" /\ exec_pos' = exec_pos + 1 /\ OldSlug \in DOMAIN files'

\* the step moves the asset file of the decision
AssetMoved ==
  /\ HasAssetRename(CurrentPlan)
  /\ CurrentPlan.image_file \in assets
  /\ CurrentPlan.image_file \notin assets'

\* C17: when the move of the record file fails, the step moves no asset,
\* rewrites no record and no gallery list, reports one error action for the
\* record, and the loop goes on with the next decision.
C17_FailedMoveAbortsDecision ==
  [][RecordMoveFailed =>
       /\ disk' = disk
       /\ actions' = << Action("ERROR: Failed to move", MdName(OldSlug)) >>
       /\ exec_pos' = exec_pos + 1
       /\ pc' = IF exec_pos < Len(will_rename(plans)) THEN "exec" ELSE "done"]_vars

\* the first decision of two failed to move and the loop is at the second
C17_Witness ==
  /\ pc = "exec"
  /\ exec_pos = 2
  /\ Len(will_rename(plans)) = 2
  /\ actions = << Action("ERROR: Failed to move", MdName(will_rename(plans)[1].md_file)) >>
  /\ will_rename(plans)[1].md_file \in DOMAIN files

\* C18: after a record is renamed, every gallery entry that was the old
\* identifier is the new identifier, and no gallery list has an entry that
\* is the old identifier.
C18_NoReferenceToOldSlug ==
  [][RecordMoved =>
       \A g \in DOMAIN galleries :
         \A k \in DOMAIN galleries[g] :
           /\ galleries[g][k] = OldSlug => galleries'[g][k] = NewSlug
           /\ galleries'[g][k] # OldSlug]_vars

\* C19: the rewrite of the gallery lists leaves every entry that names
\* another record than the renamed one unchanged.
C19_OtherEntriesUnchanged ==
  [][RecordMoved =>
       \A g \in DOMAIN galleries :
         \A k \in DOMAIN galleries[g] :
           galleries[g][k] # OldSlug => galleries'[g][k] = galleries[g][k]]_vars

\* C20: when the record and its asset are both moved, the image path of
\* the moved record names the new asset file and not the old one.
C20_ContentNamesNewAsset ==
  [][(RecordMoved /\ AssetMoved) =>
       /\ NewSlug \in DOMAIN files'
       /\ files'[NewSlug].image.name = CurrentPlan.new_image_name
       /\ files'[NewSlug].image.name # CurrentPlan.image_file.name]_vars

(***************************************************************************)
(* slugify as a function of its argument: every title of up to MaxTitleLen *)
(* characters is slugified, and the result is slugified again.             *)
(***************************************************************************)
SlugAlphabet == {"a", "B", "1", " ", "_", "-", "!", EAcute, Kanji}

SeqsUpTo(S, n) == UNION { [1..k -> S] : k \in 0..n }

SiteIdle ==
  /\ files = EmptyMap
  /\ assets = {}
  /\ galleries = EmptyMap
  /\ execute = FALSE
  /\ limit = 0

SlugInit ==
  /\ slug_title \in SeqsUpTo(SlugAlphabet, MaxTitleLen)
  /\ slug_results = <<>>
  /\ pc = "slugify"
  /\ SiteIdle
  /\ PlannerIdle
  /\ AltIdle
  /\ FnIdle
  /\ ReviewIdle
  /\ DedupIdle

\* slugify applied to the title, then to its own result
ApplySlugify ==
  /\ pc = "slugify"
  /\ Len(slug_results) < 2
  /\ slug_results' =
       Append(slug_results,
              slugify(IF slug_results = <<>> THEN slug_title ELSE slug_results[Len(slug_results)]))
  /\ UNCHANGED << disk, execute, limit, pc, planner, exec_pos, actions, slug_title, alt_vars, fn_vars, review_vars, dedup >>

SlugNext == ApplySlugify

SlugSpec == SlugInit /\ [][SlugNext]_vars

\* C11: slugify(slugify(t)) = slugify(t) for every title t.
C11_SlugifyIdempotent ==
  Len(slug_results) = 2 => slug_results[2] = slug_results[1]

\* a title that slugify changes into a non-empty slug, slugified twice
C11_Witness ==
  /\ Len(slug_results) = 2
  /\ slug_results[1] # slug_title
  /\ slug_results[1] # <<>>
  /\ Contains(slug_results[1], <<"-">>)

\* C12: the result of slugify has only characters of [a-z0-9-], does not
\* begin or end with a hyphen and has no two hyphens in a row.
C12_SlugShape ==
  \A r \in DOMAIN slug_results :
    LET slug == slug_results[r]
    IN /\ \A k \in DOMAIN slug : slug[k] \in LowerLetters \cup Digits \cup {"-"}
       /\ slug # <<>> => (slug[1] # "-" /\ slug[Len(slug)] # "-")
       /\ \A k \in 1..(Len(slug) - 1) : ~(slug[k] = "-" /\ slug[k + 1] = "-")

\* a title with an upper-case letter, a separator run and a character that
\* is removed, and its non-empty slug
C12_Witness ==
  /\ slug_results # <<>>
  /\ slug_results[1] # <<>>
  /\ \E k \in DOMAIN slug_title : slug_title[k] = "B"
  /\ Contains(slug_title, <<" ", "_">>) \/ Contains(slug_title, <<"-", "!">>)

(***************************************************************************)
(* build_rename_plan on two sites that have the same records and titles    *)
(* and differ in the names of the assets and in the asset files on disk.   *)
(***************************************************************************)
AdvisoryTitles ==
  { <<"a", " ", "b">>, <<"A", " ", "b">>, <<AAcute>>, <<"!">> }

DescriptiveImage == ImagePath(AbsDirs, "g1", <<"v", "i", "e", "w">> \o JpgExt)

AltAssetPool == AssetPool \cup { AssetFile("g1", DescriptiveImage.name) }

\* a record of the second site: the same title; an image path where the
\* first site has one, either the same or one with a descriptive name
AltContents(content) ==
  IF content.image = NoImage THEN { content }
  ELSE { content, Content(content.title, DescriptiveImage) }

AdvisoryInit ==
  /\ \E stems \in SUBSET StemPool :
       /\ stems # {}
       /\ Cardinality(stems) <= MaxFiles
       /\ files \in [stems -> { Content(t, i) : t \in AdvisoryTitles, i \in ImagePool }]
  /\ assets \in { {}, AssetPool }
  /\ galleries = GalleryLists(DOMAIN files)
  /\ alt_files \in { af \in [DOMAIN files -> { Content(t, i) : t \in AdvisoryTitles,
                                                 i \in ImagePool \cup {DescriptiveImage} }] :
                       \A f \in DOMAIN files : af[f] \in AltContents(files[f]) }
  /\ alt_assets \in SUBSET AltAssetPool
  /\ alt_plans = <<>>
  /\ execute = FALSE
  /\ limit = 0
  /\ pc = "advisory"
  /\ PlannerIdle
  /\ SlugIdle
  /\ FnIdle
  /\ ReviewIdle
  /\ DedupIdle

\* build_rename_plan on the batch of each site
PlanBoth ==
  /\ pc = "advisory"
  /\ plans' = build_rename_plan(BatchOf(files, limit), files, assets)
  /\ alt_plans' = build_rename_plan(BatchOf(alt_files, limit), alt_files, alt_assets)
  /\ pc' = "compared"
  /\ UNCHANGED << disk, execute, limit, md_files, title_to_files, file_to_title,
                  file_to_image, planned_md_names, planned_image_names, plan_pos,
                  exec_pos, actions, slug_vars, alt_files, alt_assets, fn_vars, review_vars, dedup >>

AdvisoryNext == PlanBoth

AdvisorySpec == AdvisoryInit /\ [][AdvisoryNext]_vars

ProceedNames(p) ==
  { << p[k].md_file, p[k].new_md_name >> : k \in { j \in DOMAIN p : p[j].skip_reason = NoReason } }

SkippedFiles(p) ==
  { p[k].md_file : k \in { j \in DOMAIN p : p[j].skip_reason # NoReason } }

\* C16: two sites that differ only in asset state (names of the assets,
\* asset files on disk) get the same Proceed records with the same
\* new_md_name and the same Skip records.
C16_AdvisoriesNeverBlock ==
  pc = "compared" =>
    /\ ProceedNames(plans) = ProceedNames(alt_plans)
    /\ SkippedFiles(plans) = SkippedFiles(alt_plans)

\* a record that proceeds with an asset rename and no warning on one site,
\* and with a warning and no asset rename on the other
C16_Witness ==
  /\ pc = "compared"
  /\ \E k \in DOMAIN plans, j \in DOMAIN alt_plans :
       /\ plans[k].md_file = alt_plans[j].md_file
       /\ plans[k].skip_reason = NoReason
       /\ plans[k].image_file # NoAsset
       /\ plans[k].warnings = <<>>
       /\ alt_plans[j].skip_reason = NoReason
       /\ alt_plans[j].image_file = NoAsset
       /\ alt_plans[j].warnings # <<>>
  /\ SkippedFiles(plans) # {}

(***************************************************************************)
(* is_filename_title as a function of its argument: a title is a head      *)
(* (digits, "img", other), a separator, a tail and an ending.              *)
(***************************************************************************)
FilenameHeads ==
  { <<>>,
    <<"2", "0", "1", "2", "0", "1", "0", "2">>,
    <<"2", "0", "1", "2", "0", "1", "0">>,
    <<"2", "0", "1", "2", "0", "1", "0", "2", "1">>,
    <<"i", "m", "g">>,
    <<"I", "M", "G">>,
    <<"x", "i", "m", "g">>,
    <<"x">> }

FilenameSeparators == { <<>>, <<"-">>, <<"_">>, <<".">> }

FilenameEndings ==
  { <<>>,
    JpgExt,
    <<".", "J", "P", "G">>,
    <<".", "g", "i", "f">>,
    <<"j", "p", "g">>,
    JpgExt \o <<"x">>,
    JpgExt \o <<"\n">> }

FilenameTitles ==
  { h \o p \o t \o e :
      h \in FilenameHeads, p \in FilenameSeparators,
      t \in SeqsUpTo({"1", "a"}, MaxTailLen), e \in FilenameEndings }

FilenameInit ==
  /\ fn_title \in FilenameTitles
  /\ fn_result = <<>>
  /\ pc = "is_filename_title"
  /\ SiteIdle
  /\ PlannerIdle
  /\ SlugIdle
  /\ AltIdle
  /\ ReviewIdle
  /\ DedupIdle

ApplyIsFilenameTitle ==
  /\ pc = "is_filename_title"
  /\ fn_result = <<>>
  /\ fn_result' = << is_filename_title(fn_title) >>
  /\ UNCHANGED << disk, execute, limit, pc, planner, exec_pos, actions, slug_vars,
                  alt_vars, fn_title, review_vars, dedup >>

FilenameNext == ApplyIsFilenameTitle

FilenameSpec == FilenameInit /\ [][FilenameNext]_vars

\* the title, lower-cased, ends in one of .jpg .jpeg .png .gif
EndsInImageExtension(t) ==
  \E k \in 1..Len(t) :
    SubSeq(Lower(t), k, Len(t)) \in
      { <<".", "j", "p", "g">>, <<".", "j", "p", "e", "g">>,
        <<".", "p", "n", "g">>, <<".", "g", "i", "f">> }

AllDigits(t) == \A k \in DOMAIN t : t[k] \in {"0", "1", "2", "3", "4", "5", "6", "7", "8", "9"}

\* the title begins with an 8-digit date
BeginsWithDate(t) == Len(t) >= 8 /\ AllDigits(SubSeq(t, 1, 8))

\* after n characters the title goes on with a separator and a digit
SeparatorAndDigitAt(t, n) ==
  Len(t) >= n + 2 /\ t[n + 1] \in {"-", "_"} /\ AllDigits(<< t[n + 2] >>)

BeginsWithImg(t) ==
  Len(t) >= 3 /\ Lower(SubSeq(t, 1, 3)) = <<"i", "m", "g">>

\* C22 as stated: is_filename_title is true exactly for a title that ends in
\* an image extension, or begins with an 8-digit date (a separator and
\* digits being optional), or begins with img, a separator and digits.
C22_BareDateIsFilenameLike ==
  fn_result # <<>> =>
    (fn_result[1] <=>
       \/ EndsInImageExtension(fn_title)
       \/ BeginsWithDate(fn_title)
       \/ BeginsWithImg(fn_title) /\ SeparatorAndDigitAt(fn_title, 3))

\* C22 amended: is_filename_title is true exactly for a title that ends in
\* an image extension (or in one followed by a final newline), or begins
\* with an 8-digit date, a separator and a digit, or begins with img, a
\* separator and a digit; a bare 8-digit date is not filename-like.
C22_DateNeedsSeparatorAndDigit ==
  fn_result # <<>> =>
    (fn_result[1] <=>
       \/ EndsInImageExtension(fn_title)
       \/ fn_title # <<>> /\ fn_title[Len(fn_title)] = "\n"
            /\ EndsInImageExtension(SubSeq(fn_title, 1, Len(fn_title) - 1))
       \/ BeginsWithDate(fn_title) /\ SeparatorAndDigitAt(fn_title, 8)
       \/ BeginsWithImg(fn_title) /\ SeparatorAndDigitAt(fn_title, 3))

\* a bare 8-digit date, classified as not filename-like
C22_Witness ==
  /\ Len(fn_title) = 8
  /\ AllDigits(fn_title)
  /\ fn_result = << FALSE >>

(***************************************************************************)
(* Collisions inside one plan.                                             *)
(***************************************************************************)
\* record f passes every check that comes before the look-up of the names
\* claimed by the plan (lines 198-269)
PassesEarlierChecks(f) ==
  LET slug == SlugOfTitle(files[f].title)
  IN /\ files[f].title # <<>>
     /\ files[f].image # NoImage
     /\ ~IsFilenameTitleOf(files[f].title)
     /\ ~SharesTitle(f)
     /\ slug # <<>>
     /\ slug # f
     /\ \A g \in DOMAIN files : MdName(g) # slug \o MdExt

\* the records of the batch that pass the earlier checks and slugify to
\* the same name as f
Rivals(f) ==
  { g \in Batch :
      PassesEarlierChecks(g) /\ SlugOfTitle(files[g].title) = SlugOfTitle(files[f].title) }

\* the rival whose current name is the least
FirstRival(f) ==
  CHOOSE g \in Rivals(f) : \A h \in Rivals(f) \ {g} : LexLess(MdName(g), MdName(h))

\* C23: of the records that pass the earlier checks and slugify to one
\* name, the one with the least current name Proceeds, and every other one
\* gets one Skip whose reason names the file of that record.
C23_FirstClaimWins ==
  Planned =>
    \A f \in Batch :
      PassesEarlierChecks(f) =>
        IF f = FirstRival(f)
        THEN ProceedsAsSlug(f)
        ELSE /\ Cardinality(EntriesOf(f)) = 1
             /\ \A e \in EntriesOf(f) :
                  /\ plans[e].skip_reason.kind = "Collision with planned rename of"
                  /\ plans[e].skip_reason.name = MdName(FirstRival(f))

\* two records with different titles and one slug: the first Proceeds, the
\* second is skipped
C23_Witness ==
  /\ Planned
  /\ \E f, g \in Batch :
       /\ f # g
       /\ PassesEarlierChecks(f) /\ PassesEarlierChecks(g)
       /\ g \in Rivals(f)
       /\ ProceedsAsSlug(f)
       /\ ProceedsOf(g) = {}
       /\ SkipsOf(g, "Collision with planned rename of") # {}

(***************************************************************************)
(* Destinations and sources of the moves of one run.                       *)
(***************************************************************************)
\* a step of the execution loop
ExecutesDecision == pc = "exec" /\ exec_pos' = exec_pos + 1

NewAsset == AssetFile(CurrentPlan.image_file.gallery, CurrentPlan.new_image_name)

\* C24: when a decision is executed, the destination of its record move is
\* not a file of _artworks; when its asset move is reached, the destination
\* of the asset move is not an asset file; and the step removes no file
\* other than the sources of its two moves.
C24_DestinationsAreFree ==
  [][ExecutesDecision =>
       /\ NewSlug \notin DOMAIN files
       /\ (RecordMoved /\ HasAssetRename(CurrentPlan)) => NewAsset \notin assets
       /\ \A f \in DOMAIN files \ {OldSlug} : f \in DOMAIN files' /\ files'[f] = files[f]
       /\ assets \ {CurrentPlan.image_file} \subseteq assets']_vars

\* a run of two decisions: the first one moved its record, the second one
\* moved its record and its asset
C24_Witness ==
  /\ pc = "done"
  /\ Len(will_rename(plans)) = 2
  /\ will_rename(plans)[1].md_file \notin DOMAIN files
  /\ PathStem(will_rename(plans)[1].new_md_name) \in DOMAIN files
  /\ HasAssetRename(will_rename(plans)[2])
  /\ Len(actions) >= 2
  /\ actions[1] = Action("git mv", will_rename(plans)[2].new_md_name)
  /\ actions[2] = Action("git mv", will_rename(plans)[2].new_image_name)

\* C25: in a plan, every asset file on disk is the source of at most one
\* asset rename.
C25_OneRenamePerAsset ==
  Planned =>
    \A a \in assets :
      Cardinality({ k \in DOMAIN plans :
                     HasAssetRename(plans[k]) /\ plans[k].image_file = a }) <= 1

(***************************************************************************)
(* The decisions of one plan, executed in any order.                       *)
(***************************************************************************)
\* the loop of main over the decisions, every "git mv" succeeding when git
\* accepts it: the disk after the last decision
RECURSIVE ExecuteAll(_, _)
ExecuteAll(decisions, d) ==
  IF decisions = <<>> THEN d
  ELSE LET r == execute_plan(Head(decisions), d, TRUE, TRUE)
       IN ExecuteAll(Tail(decisions),
                     [files |-> r.files, assets |-> r.assets, galleries |-> r.galleries])

Orders(decisions) ==
  { [k \in DOMAIN decisions |-> decisions[p[k]]] : p \in Permutations(DOMAIN decisions) }

DiskNow == [files |-> files, assets |-> assets, galleries |-> galleries]

\* C21: the disk after the decisions of a plan are executed is the same for
\* every order of the decisions, and no step of the execution loop makes a
\* gallery entry that named a record on disk name a record that is not on
\* disk.
C21_OrderIndependent ==
  /\ [](Planned =>
          \A o \in Orders(will_rename(plans)) :
            ExecuteAll(o, DiskNow) = ExecuteAll(will_rename(plans), DiskNow))
  /\ [][ExecutesDecision =>
          \A g \in DOMAIN galleries :
            \A k \in DOMAIN galleries[g] :
              galleries[g][k] \in DOMAIN files => galleries'[g][k] \in DOMAIN files']_vars

(***************************************************************************)
(* title_reviewer/app.py: the /approve route.  The status file holds one   *)
(* entry per artwork and the statistics; a request is handled by a thread  *)
(* of the server in the steps update_artwork_title, load_status,           *)
(* save_status and the answer.                                             *)
(***************************************************************************)
Threads == {1, 2}

ArtworkNames == {"p.md", "q.md"}

ReviewStatuses == {"needs_review", "has_suggestion", "completed", "good"}

StatusEntry(status, title, final_title) ==
  [status |-> status, title |-> title, final_title |-> final_title]

CountOf(artworks, status) ==
  Cardinality({ n \in DOMAIN artworks : artworks[n].status = status })

\* the statistics as triage_titles writes them: one counter per status
Statistics(artworks) ==
  [total |-> Cardinality(DOMAIN artworks),
   needs_review |-> CountOf(artworks, "needs_review"),
   has_suggestion |-> CountOf(artworks, "has_suggestion"),
   completed |-> CountOf(artworks, "completed"),
   good |-> CountOf(artworks, "good")]

StatusFile(artworks, statistics) == [artworks |-> artworks, statistics |-> statistics]

\* title.strip()
RECURSIVE StripSpacesLeft(_)
StripSpacesLeft(t) ==
  IF t # <<>> /\ Head(t) \in Whitespace THEN StripSpacesLeft(Tail(t)) ELSE t

RECURSIVE StripSpacesRight(_)
StripSpacesRight(t) ==
  IF t # <<>> /\ t[Len(t)] \in Whitespace
  THEN StripSpacesRight(SubSeq(t, 1, Len(t) - 1)) ELSE t

Strip(t) == StripSpacesRight(StripSpacesLeft(t))

FormFilenames == ArtworkNames \cup {"z.md", ""}

FormTitles == { <<>>, <<" ">>, <<"a">>, <<" ", "b">> }

IdleRequest(served) ==
  [pc |-> "idle", filename |-> "", final_title |-> <<>>, status |-> EmptyMap,
   served |-> served]

ReviewerInit ==
  /\ \E present \in SUBSET ArtworkNames :
       files = [n \in present |-> Content(<<"x">>, NoImage)]
  /\ \E artworks \in [ArtworkNames -> { StatusEntry(st, <<"x">>, <<>>) :
                                           st \in ReviewStatuses \ {"good"} }] :
       status_file = StatusFile(artworks, Statistics(artworks))
  /\ requests = [t \in Threads |-> IdleRequest(0)]
  /\ assets = {}
  /\ galleries = EmptyMap
  /\ execute = FALSE
  /\ limit = 0
  /\ pc = "reviewer"
  /\ PlannerIdle
  /\ SlugIdle
  /\ AltIdle
  /\ FnIdle
  /\ DedupIdle

ReviewerRest ==
  << assets, galleries, execute, limit, pc, planner, exec_pos, actions,
     slug_vars, alt_vars, fn_vars, dedup >>

\* lines 165-169: the form is read; without a filename or a title the
\* request is answered at once
ApproveStart(t) ==
  /\ pc = "reviewer"
  /\ requests[t].pc = "idle"
  /\ requests[t].served < MaxApprovals
  /\ \E filename \in FormFilenames, title \in FormTitles :
       LET final_title == Strip(title)
       IN requests' =
            [requests EXCEPT ![t] =
               IF filename = "" \/ final_title = <<>>
               THEN IdleRequest(@.served + 1)
               ELSE [pc |-> "update_artwork_title", filename |-> filename,
                     final_title |-> final_title, status |-> EmptyMap,
                     served |-> @.served]]
  /\ UNCHANGED << files, status_file, ReviewerRest >>

\* update_artwork_title: False when the file is missing, else the title
\* line is rewritten
update_artwork_title(disk_files, filename, new_title) ==
  IF filename \notin DOMAIN disk_files
  THEN [ok |-> FALSE, files |-> disk_files]
  ELSE [ok |-> TRUE,
        files |-> [disk_files EXCEPT ![filename] = Content(new_title, @.image)]]

\* line 172: the result of update_artwork_title is not looked at
ApproveUpdateTitle(t) ==
  /\ pc = "reviewer"
  /\ requests[t].pc = "update_artwork_title"
  /\ files' = update_artwork_title(files, requests[t].filename, requests[t].final_title).files
  /\ requests' = [requests EXCEPT ![t].pc = "load_status"]
  /\ UNCHANGED << status_file, ReviewerRest >>

\* load_status, called by mark_completed (line 102)
load_status == status_file

ApproveLoadStatus(t) ==
  /\ pc = "reviewer"
  /\ requests[t].pc = "load_status"
  /\ requests' = [requests EXCEPT ![t].pc = "save_status", ![t].status = load_status]
  /\ UNCHANGED << files, status_file, ReviewerRest >>

Max(a, b) == IF a > b THEN a ELSE b

\* lines 103-111 of mark_completed, on the status that was loaded
mark_completed(status, filename, final_title) ==
  IF filename \in DOMAIN status.artworks
  THEN [artworks |->
          [status.artworks EXCEPT ![filename] =
             StatusEntry("completed", @.title, final_title)],
        statistics |->
          [status.statistics EXCEPT
             !.has_suggestion = Max(0, @ - 1),
             !.completed = @ + 1]]
  ELSE status

\* lines 112-114: save_status writes the whole status, when the file name
\* is one of the status file
ApproveSaveStatus(t) ==
  /\ pc = "reviewer"
  /\ requests[t].pc = "save_status"
  /\ status_file' =
       IF requests[t].filename \in DOMAIN requests[t].status.artworks
       THEN mark_completed(requests[t].status, requests[t].filename,
                           requests[t].final_title)
       ELSE status_file
  /\ requests' = [requests EXCEPT ![t].pc = "respond"]
  /\ UNCHANGED << files, ReviewerRest >>

\* lines 177-181: the answer; the request is over
ApproveRespond(t) ==
  /\ pc = "reviewer"
  /\ requests[t].pc = "respond"
  /\ requests' = [requests EXCEPT ![t] = IdleRequest(@.served + 1)]
  /\ UNCHANGED << files, status_file, ReviewerRest >>

ReviewerNext ==
  \E t \in Threads :
    \/ ApproveStart(t)
    \/ ApproveUpdateTitle(t)
    \/ ApproveLoadStatus(t)
    \/ ApproveSaveStatus(t)
    \/ ApproveRespond(t)

ReviewerSpec == ReviewerInit /\ [][ReviewerNext]_vars

(***************************************************************************)
(* scripts/apply_deduplication.py: process_duplicate_set on one duplicate  *)
(* set.  The image files are the asset files of the site; the references   *)
(* to them are the image paths of the artwork files (the site of the model *)
(* has no gallery or hub yml file).                                        *)
(***************************************************************************)
DedupPool == AssetPool \cup { AssetFile("g2", <<"x">> \o JpgExt) }

DedupNames == ImageNamePool \cup { <<"a">> \o JpgExt, <<>> }

\* the lists of up to MaxDupFiles different files
DupLists ==
  { l \in SeqsUpTo(DedupPool, MaxDupFiles) :
      \A i, j \in DOMAIN l : i # j => l[i] # l[j] }

DupSet(file_to_keep, new_file_name, dup_files) ==
  [file_to_keep |-> file_to_keep, new_file_name |-> new_file_name, files |-> dup_files]

NoStats == [files_deleted |-> 0, files_renamed |-> 0, refs_updated |-> 0]

DedupInit ==
  /\ \E keep \in DedupPool \cup {NoAsset}, name \in DedupNames, l \in DupLists,
        dry_run \in BOOLEAN :
       dedup = [dup |-> DupSet(keep, name, l), dry_run |-> dry_run, pc |-> "start",
                canonical |-> NoAsset, pos |-> 1, stats |-> NoStats]
  /\ assets \in SUBSET DedupPool
  /\ \E a \in DedupPool :
       files = [n \in {"p.md"} |-> Content(<<"x">>, ImagePath(AbsDirs, a.gallery, a.name))]
  /\ galleries = EmptyMap
  /\ execute = FALSE
  /\ limit = 0
  /\ pc = "dedup"
  /\ PlannerIdle
  /\ SlugIdle
  /\ AltIdle
  /\ FnIdle
  /\ ReviewIdle

DedupRest ==
  << galleries, execute, limit, pc, planner, exec_pos, actions,
     slug_vars, alt_vars, fn_vars, review_vars >>

\* the artwork files whose content names old_ref
Referring(disk_files, old_ref) ==
  { n \in DOMAIN disk_files :
      disk_files[n].image.gallery = old_ref.gallery /\ disk_files[n].image.name = old_ref.name }

\* update_artwork_files: content.replace(old_ref, new_ref) in every file
update_artwork_files(disk_files, old_ref, new_ref) ==
  [n \in DOMAIN disk_files |->
     IF n \in Referring(disk_files, old_ref)
     THEN Content(disk_files[n].title,
                  ImagePath(disk_files[n].image.dirs, new_ref.gallery, new_ref.name))
     ELSE disk_files[n]]

\* keep_path.rename(canonical_path): a file at the destination is replaced
RenameReplaces(disk_assets, keep_path, canonical_path) ==
  (disk_assets \ {keep_path}) \cup {canonical_path}

\* lines 174-206: the checks of the arguments and step 1
ProcessStart ==
  /\ pc = "dedup"
  /\ dedup.pc = "start"
  /\ LET keep_path == dedup.dup.file_to_keep
         canonical_path == AssetFile(keep_path.gallery, dedup.dup.new_file_name)
     IN IF keep_path = NoAsset \/ dedup.dup.new_file_name = <<>> \/ keep_path \notin assets
        THEN /\ dedup' = [dedup EXCEPT !.pc = "returned"]
             /\ UNCHANGED << files, assets >>
        ELSE IF keep_path # canonical_path
        THEN /\ assets' = IF dedup.dry_run THEN assets
                          ELSE RenameReplaces(assets, keep_path, canonical_path)
             /\ files' = IF dedup.dry_run THEN files
                         ELSE update_artwork_files(files, keep_path, canonical_path)
             /\ dedup' = [dedup EXCEPT !.pc = "duplicates", !.canonical = canonical_path,
                                        !.stats.files_renamed = @ + 1,
                                        !.stats.refs_updated = @ + 1]
        ELSE /\ dedup' = [dedup EXCEPT !.pc = "duplicates", !.canonical = canonical_path]
             /\ UNCHANGED << files, assets >>
  /\ UNCHANGED DedupRest

\* lines 209-229: one iteration of step 2
ProcessDuplicate ==
  /\ pc = "dedup"
  /\ dedup.pc = "duplicates"
  /\ dedup.pos <= Len(dedup.dup.files)
  /\ LET dup_file == dedup.dup.files[dedup.pos]
         refs == IF dedup.dry_run THEN 0 ELSE Cardinality(Referring(files, dup_file))
     IN IF dup_file = dedup.dup.file_to_keep
        THEN /\ dedup' = [dedup EXCEPT !.pos = @ + 1]
             /\ UNCHANGED << files, assets >>
        ELSE /\ files' = IF dedup.dry_run THEN files
                         ELSE update_artwork_files(files, dup_file, dedup.canonical)
             /\ assets' = IF dedup.dry_run THEN assets ELSE assets \ {dup_file}
             /\ dedup' = [dedup EXCEPT !.pos = @ + 1,
                                        !.stats.refs_updated = @ + refs,
                                        !.stats.files_deleted =
                                          IF dup_file \in assets THEN @ + 1 ELSE @]
  /\ UNCHANGED DedupRest

\* line 231
ProcessReturn ==
  /\ pc = "dedup"
  /\ dedup.pc = "duplicates"
  /\ dedup.pos > Len(dedup.dup.files)
  /\ dedup' = [dedup EXCEPT !.pc = "returned"]
  /\ UNCHANGED << files, assets, DedupRest >>

DedupNext == ProcessStart \/ ProcessDuplicate \/ ProcessReturn

DedupSpec == DedupInit /\ [][DedupNext]_vars

\* C29: after process_duplicate_set has run without dry_run on a set whose
\* file_to_keep exists, the canonical file is on disk, and no step of step 2
\* deletes another file than a duplicate that is not the kept file.
C29_CanonicalFileExists ==
  /\ []((/\ pc = "dedup"
         /\ dedup.pc = "returned"
         /\ dedup.canonical # NoAsset
         /\ ~dedup.dry_run) => dedup.canonical \in assets)
  /\ [][(pc = "dedup" /\ dedup.pc = "duplicates" /\ dedup.pos <= Len(dedup.dup.files))
          => /\ assets \ assets' \subseteq { dedup.dup.files[dedup.pos] }
             /\ dedup.dup.file_to_keep \in assets => dedup.dup.file_to_keep \in assets']_vars

(***************************************************************************)
(* triage_titles.py main and update_status_file of add_title_suggestions:  *)
(* the status file is rebuilt from the artwork files and the status file   *)
(* of the run before, then suggestions are recorded in it.                 *)
(***************************************************************************)
GENERIC_TITLES == { <<"s", "t", "u", "d", "y">> }

Consonants == {"b", "c", "d", "f", "g", "h", "j", "k", "l", "m", "n", "p", "q", "r",
               "s", "t", "v", "w", "x", "z"}

\* the titles of the model: none, a descriptive one and the same in another
\* case, a short one, a string of consonants, one with an underscore in
\* front, a generic one
TriageTitles ==
  { <<>>,
    <<"a", " ", "b", " ", "c">>,
    <<"A", " ", "b", " ", "c">>,
    <<"x">>,
    <<"b", "c", "d", "x">>,
    <<"_", "a", "b", "c">>,
    <<"s", "t", "u", "d", "y">> }

\* title_counts[title.lower()]: the files with this title, case-insensitively
title_count(disk_files, title_lower) ==
  Cardinality({ n \in DOMAIN disk_files :
                  disk_files[n].title # <<>> /\ Lower(disk_files[n].title) = title_lower })

\* classify_title: the reasons, in the order of the code.  The other
\* patterns need a character or a length that no title of TriageTitles has.
classify_title(title, disk_files) ==
  LET title_stripped == Strip(title)
      title_lower == Lower(title_stripped)
  IN (IF Len(title_stripped) >= 4
         /\ \A k \in DOMAIN title_stripped : title_lower[k] \in Consonants
      THEN << "nonsense" >> ELSE << >>)
     \o (IF Len(title_stripped) \in 1..3 THEN << "too_short" >> ELSE << >>)
     \o (IF title_stripped # <<>> /\ title_stripped[1] = "_"
         THEN << "underscore_prefix" >> ELSE << >>)
     \o (IF title_count(disk_files, title_lower) > 1
         THEN << "duplicate_title" >> ELSE << >>)
     \o (IF title_lower \in GENERIC_TITLES THEN << "generic_title" >> ELSE << >>)

NeedsReviewEntry(title, reasons) ==
  [status |-> "needs_review", title |-> title, reasons |-> reasons]

GoodEntry(title) == [status |-> "good", title |-> title]

SuggestionEntry(title, reasons, suggested_title) ==
  [status |-> "has_suggestion", title |-> title, reasons |-> reasons,
   suggested_title |-> suggested_title]

IsPreserved_CompletedOnly(existing) == existing.status = "completed"

\* lines 237 and 244: the entry of the run before is kept as it is
IsPreserved(existing) == existing.status \in {"completed", "has_suggestion"}

\* load_existing_status(...).get("artworks", {})
existing_artworks(status) == IF status = EmptyMap THEN EmptyMap ELSE status.artworks

\* lines 225-270: the entry of one artwork file that has a title
TriageEntry(filename, disk_files, existing) ==
  LET title == disk_files[filename].title
      reasons == classify_title(title, disk_files)
  IN IF filename \in DOMAIN existing /\ IsPreserved(existing[filename])
     THEN existing[filename]
     ELSE IF reasons # << >> THEN NeedsReviewEntry(title, reasons)
     ELSE GoodEntry(title)

\* main of triage_titles: the status file it writes.  Every entry adds one
\* to total and one to the counter of its status.
triage(disk_files, status) ==
  LET titled == { n \in DOMAIN disk_files : disk_files[n].title # <<>> }
      artworks == [n \in titled |-> TriageEntry(n, disk_files, existing_artworks(status))]
  IN StatusFile(artworks, Statistics(artworks))

\* update_status_file: the entries of the suggestions that need review get
\* the suggestion, and one moves from needs_review to has_suggestion each
update_status_file(status, suggestions) ==
  LET moved == { n \in DOMAIN suggestions :
                   n \in DOMAIN status.artworks /\ status.artworks[n].status = "needs_review" }
      artworks == [n \in DOMAIN status.artworks |->
                     IF n \in moved
                     THEN Put(Put(status.artworks[n], "status", "has_suggestion"),
                              "suggested_title", suggestions[n])
                     ELSE status.artworks[n]]
  IN StatusFile(artworks,
                [status.statistics EXCEPT
                   !.needs_review = @ - Cardinality(moved),
                   !.has_suggestion = @ + Cardinality(moved)])

\* the entries that a status file of an earlier run can hold
ExistingEntries ==
  { NeedsReviewEntry(<<"x">>, << "too_short" >>),
    GoodEntry(<<"a", " ", "b", " ", "c">>),
    SuggestionEntry(<<"x">>, << "too_short" >>, <<"o", "l", "d">>),
    StatusEntry("completed", <<"x">>, <<"d", "o", "n", "e">>) }

\* the statistics of an earlier run, right or with counters that drifted
ExistingStatistics(artworks) ==
  { Statistics(artworks),
    [Statistics(artworks) EXCEPT !.completed = @ + 1, !.has_suggestion = 0] }

SUGGESTIONS == { <<"n", "e", "w">> }

TriageInit ==
  /\ \E present \in SUBSET ArtworkNames :
       files \in [present -> { Content(t, NoImage) : t \in TriageTitles }]
  /\ \/ status_file = EmptyMap
     \/ \E known \in SUBSET ArtworkNames :
          \E artworks \in [known -> ExistingEntries] :
            \E statistics \in ExistingStatistics(artworks) :
              status_file = StatusFile(artworks, statistics)
  /\ requests = <<>>
  /\ assets = {}
  /\ galleries = EmptyMap
  /\ execute = FALSE
  /\ limit = 0
  /\ pc = "triage"
  /\ PlannerIdle
  /\ SlugIdle
  /\ AltIdle
  /\ FnIdle
  /\ DedupIdle

TriageRest ==
  << files, assets, galleries, execute, limit, planner, exec_pos, actions,
     slug_vars, alt_vars, fn_vars, requests, dedup >>

\* a run of triage_titles.py
TriageMain ==
  /\ pc \in {"triage", "triaged", "suggested"}
  /\ status_file' = triage(files, status_file)
  /\ pc' = "triaged"
  /\ UNCHANGED TriageRest

\* update_status_file(SUGGESTIONS), for suggestions for some file names
UpdateStatusFile ==
  /\ pc \in {"triage", "triaged", "suggested"}
  /\ status_file # EmptyMap
  /\ \E names \in SUBSET (ArtworkNames \cup {"z.md"}) :
       \E suggestions \in [names -> SUGGESTIONS] :
         status_file' = update_status_file(status_file, suggestions)
  /\ pc' = "suggested"
  /\ UNCHANGED TriageRest

TriageNext == TriageMain \/ UpdateStatusFile

TriageSpec == TriageInit /\ [][TriageNext]_vars

CounterSum(statistics) ==
  statistics.needs_review + statistics.has_suggestion + statistics.completed + statistics.good

SequentialAndIdle ==
  /\ pc = "reviewer"
  /\ requests[1].pc = "idle"
  /\ requests[2] = IdleRequest(0)

\* C26: after a sequence of /approve requests the has_suggestion and
\* completed counters of the status file are the numbers of artworks with
\* those statuses.
C26_CountersMatchStatuses ==
  SequentialAndIdle =>
    /\ status_file.statistics.has_suggestion = CountOf(status_file.artworks, "has_suggestion")
    /\ status_file.statistics.completed = CountOf(status_file.artworks, "completed")

\* both threads have saved the status for their first request, and the two
\* requests name different artworks of the status file
BothSaved ==
  /\ pc = "reviewer"
  /\ \A t \in Threads : requests[t].pc = "respond" /\ requests[t].served = 0
  /\ requests[1].filename # requests[2].filename
  /\ \A t \in Threads : requests[t].filename \in ArtworkNames

\* the completed counter before the two requests: the counter in the status
\* loaded by the request that loaded it first
CompletedBefore ==
  IF requests[1].status.statistics.completed < requests[2].status.statistics.completed
  THEN requests[1].status.statistics.completed
  ELSE requests[2].status.statistics.completed

\* C27: when two /approve requests for different artworks have been handled
\* at the same time, both artworks are completed with their final titles
\* and the completed counter has grown by two.
C27_NoLostUpdate ==
  BothSaved =>
    /\ \A t \in Threads :
         /\ status_file.artworks[requests[t].filename].status = "completed"
         /\ status_file.artworks[requests[t].filename].final_title = requests[t].final_title
    /\ status_file.statistics.completed = CompletedBefore + 2

\* C28: a request changes the status file only when the artwork file exists
\* and its title is the final title of the request.
C28_CompletedOnlyWhenRewritten ==
  [][(/\ pc = "reviewer"
      /\ requests[2] = IdleRequest(0)
      /\ requests[1].pc = "save_status"
      /\ status_file' # status_file)
       => /\ requests[1].filename \in DOMAIN files
          /\ files[requests[1].filename].title = requests[1].final_title]_vars

====
